---- MODULE Spec2Model ----
(***************************************************************************)
(* A model of easyGA (src/easyga.py): the Chromasome class, the            *)
(* GeneticAlgorithm engine and the two subclasses that configure it        *)
(* (ToySolver in src/toy_problem.py, Testega in src/ga_tests.py).          *)
(*                                                                         *)
(* Two specifications share the module:                                    *)
(*   Spec      the engine: construction, nextGeneration and the public     *)
(*             methods a caller may invoke between generations;            *)
(*   ChromSpec the methods of a single Chromasome called directly.         *)
(***************************************************************************)
EXTENDS Integers, Sequences, FiniteSets, TLC

\* ------------------------------------------------------------------ bounds
\* Largest population_size an engine is constructed with.
MaxPop == 3
\* Largest bit_string_len / n_bits.
MaxBits == 2
\* Largest number of bits in a whole population (population_size * bit_string_len).
MaxGenes == 4
\* How far outside [0, n_bits] a pivot argument is drawn.
PivotSlack == 2
\* Largest number of fitness() calls followed between two changes of a genome.
MaxFitnessCalls == 2

\* --------------------------------------------------------- Python values
\* Python's None, and a value that is not None: an optional is a sequence of
\* length 0 or 1.
None == <<>>
Some(v) == <<v>>
Val(o) == o[1]

Range(s) == {s[i] : i \in 1..Len(s)}

RECURSIVE Sum(_)
\* sum(bit_string): the builtin, over a list of integers.
Sum(s) == IF s = <<>> THEN 0 ELSE s[1] + Sum(Tail(s))

\* A floor division a / b of Python 2 on integers (b > 0).
FloorDiv(a, b) == a \div b

\* ------------------------------------------------------ fitness functions
\* The two fitness functions of the repository: toy_problem.fitness is the
\* number of one bits, ga_tests.fitness is 2 to that number.
FitnessFunctions == {"toy_problem", "ga_tests"}

FitnessFnc(f, bit_string) ==
  IF f = "toy_problem" THEN Sum(bit_string) ELSE 2 ^ Sum(bit_string)

\* ------------------------------------------------------------- Chromasome
Bits == {0, 1}
BitStrings(n) == [1..n -> Bits]

\* Chromasome.__init__: n_bits zeros and no cached fitness.
Chromasome(n_bits) ==
  [n_bits |-> n_bits, bit_string |-> [i \in 1..n_bits |-> 0], fitness_val |-> None]

\* Chromasome.randomise: every bit is random.choice([0, 1]); choices[i] is the
\* outcome of the i-th choice.
randomise(self, choices) ==
  [self EXCEPT !.bit_string = [i \in 1..self.n_bits |-> choices[i]]]

\* Random draws of random.random(), a float in [0.0, 1.0), in hundredths:
\* 0.0, 0.5 and 0.99.
RandomDraws == {0, 50, 99}
\* Mutation rates in hundredths: 0.0, the 0.01 of both subclasses, and 1.0.
Rates == {0, 1, 100}
\* Rates that mutateAll rejects: -0.01 and 1.01.
BadRates == {-1, 101}

\* int(not b) for a bit b.
FlipBitBitwise(b) == -1 - b
FlipBit(b) == IF b = 0 THEN 1 ELSE 0

\* Chromasome.mutate: bit i is flipped when the i-th draw is <= rate.
mutate(self, rate, draws) ==
  [self EXCEPT !.bit_string =
     [i \in 1..Len(self.bit_string) |->
        IF draws[i] <= rate THEN FlipBit(self.bit_string[i]) ELSE self.bit_string[i]]]

\* The test "self.fitness_val is not None".
IsCachedTruthy(self) == self.fitness_val # None /\ Val(self.fitness_val) # 0
IsCached(self) == self.fitness_val # None

\* Chromasome.fitness: the individual afterwards, the value returned and the
\* number of invocations of the fitness function.
fitness(self, f) ==
  IF IsCached(self)
  THEN [self |-> self, ret |-> Val(self.fitness_val), invoked |-> 0]
  ELSE [self |-> [self EXCEPT !.fitness_val = Some(FitnessFnc(f, self.bit_string))],
        ret |-> FitnessFnc(f, self.bit_string), invoked |-> 1]

\* Python's slice bound: a negative index counts from the end, and the result
\* is clamped to [0, len].
SliceBound(p, len) ==
  LET q == IF p < 0 THEN p + len ELSE p
  IN  IF q < 0 THEN 0 ELSE IF q > len THEN len ELSE q

\* s[:p] and s[p:].
SliceTo(s, p) == SubSeq(s, 1, SliceBound(p, Len(s)))
SliceFromOffByOne(s, p) == SubSeq(s, SliceBound(p, Len(s)) + 2, Len(s))
SliceFrom(s, p) == SubSeq(s, SliceBound(p, Len(s)) + 1, Len(s))

\* Chromasome.crossoverSinglePoint: both parents afterwards and the value
\* returned (the child). The method raises nothing.
crossoverSinglePoint(self, mate, pivot) ==
  [self |-> self, mate |-> mate, raised |-> None,
   ret |-> Some([Chromasome(self.n_bits) EXCEPT
             !.bit_string = SliceTo(self.bit_string, pivot) \o SliceFrom(mate.bit_string, pivot)])]

\* Chromasome.crossoverUniform: choice[i] = int(random.random() > 0.5) picks
\* the parent bit i is copied from.
crossoverUniformInPlace(self, mate, draws) ==
  [self EXCEPT
     !.bit_string = [i \in 1..Len(self.bit_string) |->
        IF draws[i] > 50 THEN mate.bit_string[i] ELSE self.bit_string[i]]]
crossoverUniform(self, mate, draws) ==
  [Chromasome(self.n_bits) EXCEPT
     !.bit_string = [i \in 1..Len(self.bit_string) |->
        IF draws[i] > 50 THEN mate.bit_string[i] ELSE self.bit_string[i]]]

\* ------------------------------------------------- GeneticAlgorithm: state
VARIABLES
  population_size,  \* self.population_size
  bit_string_len,   \* self.bit_string_len
  fitness_fnc,      \* self.fitness_fnc
  hooks,            \* the subclass: what selection() and crossover() call
  population,       \* self.population: a list of Chromasome
  op,               \* the public method being executed, or the last one executed
  pc,               \* the position inside that method, "idle" once it has ended
  tasks,            \* updateAllFitness: the bit strings handed to work_pool.map
  updated_fitness,  \* updateAllFitness: the results of work_pool.map so far
  n_pairs,          \* getRoulettePairs, getBestPairs: the argument n_pairs
  total_fitness,    \* getRoulettePairs: total_fitness
  parent_pairs,     \* getRoulettePairs, getBestPairs: parent_pairs, pairs of indices into
                    \*   the sorted population (0 is None)
  raised,           \* the exception the last call ended with, or None
  chrom,            \* ChromSpec: the Chromasome under test (self)
  mate,             \* ChromSpec: the other parent
  result,           \* ChromSpec: what the last method call returned or raised
  history           \* ChromSpec: the fitness() calls since the last mutation

engine_vars == <<population_size, bit_string_len, fitness_fnc, hooks, population,
                 op, pc, tasks, updated_fitness, n_pairs, total_fitness,
                 parent_pairs, raised>>
chrom_vars == <<chrom, mate, result, history>>
vars == <<engine_vars, chrom_vars>>

\* The subclasses: Testega (src/ga_tests.py) pairs len(population) times and
\* recombines uniformly; ToySolver (src/toy_problem.py) pairs population_size/2
\* times and recombines at a single point. The two other combinations of the
\* built-in methods are the subclasses a user may also write.
Testega == [selection |-> "len(population)", crossover |-> "uniformCrossover"]
ToySolver == [selection |-> "population_size/2", crossover |-> "singlePointCrossover"]
Hooks == [selection : {"len(population)", "population_size/2"},
          crossover : {"uniformCrossover", "singlePointCrossover"}]

\* The mutation rate both subclasses pass to mutateAll: 0.01.
HookRate == 1

\* The argument selection() passes to getRoulettePairs.
SelectionPairs(h, pop, size) ==
  IF h.selection = "len(population)" THEN Len(pop) ELSE FloorDiv(size, 2)

\* ------------------------------------------------------- updateAllFitness
\* The slot of updated_fitness the result of task i is stored in: Pool.map
\* returns the results in the order of its input.
ResultSlotByCompletion(i, results) ==
  1 + Cardinality({j \in 1..Len(results) : results[j] # None})
ResultSlot(i, results) == i

\* The for loop of updateAllFitness: fitness_val of population[i] becomes
\* updated_fitness[i].
WriteBack(pop, results) ==
  [i \in 1..Len(pop) |-> [pop[i] EXCEPT !.fitness_val = results[i]]]

\* --------------------------------------------------------- getRoulettePairs
RECURSIVE SortedDesc(_, _)
\* sorted(population, key=fitness, reverse=True): a stable sort, so an
\* individual goes after the ones already placed whose key is >= its own.
SortedDesc(pop, f) ==
  IF pop = <<>> THEN <<>>
  ELSE LET n == Len(pop)
           head == SortedDesc(SubSeq(pop, 1, n - 1), f)
           x == fitness(pop[n], f).self
           k == Cardinality({j \in 1..Len(head) : Val(head[j].fitness_val) >= Val(x.fitness_val)})
       IN  SubSeq(head, 1, k) \o <<x>> \o SubSeq(head, k + 1, Len(head))

\* sum(individual.fitness() for individual in self.population)
TotalFitness(pop, f) == Sum([i \in 1..Len(pop) |-> fitness(pop[i], f).ret])

\* The values of r = random.uniform(0.0, total_fitness), in halves: every
\* integer and every half between 0 and total_fitness, which tells apart all
\* the outcomes of the comparison with an integer cumulative fitness.
UniformDraws(total) == IF total >= 0 THEN 0..(2 * total) ELSE (2 * total)..0

\* cumulative_fitness after the first i individuals.
Cumulative(pop, f, i) == Sum([j \in 1..i |-> fitness(pop[j], f).ret])

\* The for loop that walks the population: the index of the first individual
\* whose cumulative fitness is >= r, 0 (None) when there is none.
Walk(pop, f, r2) ==
  LET hits == {i \in 1..Len(pop) : 2 * Cumulative(pop, f, i) >= r2}
  IN  IF hits = {} THEN 0 ELSE CHOOSE i \in hits : \A j \in hits : i <= j

\* The test that lets a drawn pair into parent_pairs, in getRoulettePairs and
\* in getBestPairs.
AcceptsPairRepeats(left, right, pairs) == left # right
AcceptsPair(left, right, pairs) ==
  left # right /\ <<left, right>> \notin Range(pairs)

\* The condition of the while loop of getRoulettePairs (n = n_pairs) and of
\* getBestPairs (n = population_size).
KeepsDrawing(pairs, n) == Len(pairs) < n

\* ------------------------------------------------- recombination operators
\* The ValueError of a crossover method, with the two numbers its message
\* is formatted from.
ValueError(method, expects, given) ==
  [type |-> "ValueError", method |-> method, expects |-> expects, given |-> given]
\* A method called on None.
AttributeError == [type |-> "AttributeError", method |-> "None"]

HasNone(pairs) == \E i \in 1..Len(pairs) : pairs[i][1] = 0 \/ pairs[i][2] = 0

\* GeneticAlgorithm.uniformCrossover: the exception raised or the list
\* returned. pop is the list the pairs refer to, draws[i] the random draws of
\* the i-th crossoverUniform.
uniformCrossoverUnchecked(pairs, pop, size, draws) ==
  [raised |-> None,
   ret |-> Some([i \in 1..Len(pairs) |->
                   crossoverUniform(pop[pairs[i][1]], pop[pairs[i][2]], draws[i])])]
uniformCrossover(pairs, pop, size, draws) ==
  IF Len(pairs) # size
  THEN [raised |-> Some(ValueError("uniformCrossover", size, Len(pairs))), ret |-> None]
  ELSE IF HasNone(pairs)
  THEN [raised |-> Some(AttributeError), ret |-> None]
  ELSE [raised |-> None,
        ret |-> Some([i \in 1..Len(pairs) |->
                        crossoverUniform(pop[pairs[i][1]], pop[pairs[i][2]], draws[i])])]

\* GeneticAlgorithm.singlePointCrossover; pivot is None or Some(index).
singlePointCrossover(pairs, pop, size, len, pivot) ==
  IF Len(pairs) # FloorDiv(size, 2)
  THEN [raised |-> Some(ValueError("singlePointCrossover", FloorDiv(size, 2), Len(pairs))),
        ret |-> None]
  ELSE IF HasNone(pairs)
  THEN [raised |-> Some(AttributeError), ret |-> None]
  ELSE LET at == IF pivot = None THEN FloorDiv(len, 2) ELSE Val(pivot)
           first == [i \in 1..Len(pairs) |->
                       Val(crossoverSinglePoint(pop[pairs[i][1]], pop[pairs[i][2]], at).ret)]
           second == [i \in 1..Len(pairs) |->
                       Val(crossoverSinglePoint(pop[pairs[i][2]], pop[pairs[i][1]], at).ret)]
       IN  [raised |-> None, ret |-> Some(first \o second)]

\* GeneticAlgorithm.mutateAll: the exception raised, and the population
\* afterwards; draws[i] are the random draws of the i-th individual's mutate.
mutateAll(pop, rate, draws) ==
  IF rate < 0 \/ rate > 100
  THEN [raised |-> Some([type |-> "ValueError", method |-> "mutateAll"]), population |-> pop]
  ELSE [raised |-> None,
        population |-> [i \in 1..Len(pop) |-> mutate(pop[i], rate, draws[i])]]

\* The draws of one mutate or crossoverUniform call on n bits, and of one
\* call per individual of a list of k.
DrawsFor(n) == [1..n -> RandomDraws]
\* The engine's steps draw the smallest and the largest value only: every
\* comparison of the code (<= rate with rate 0.0, 0.01 or 1.0, > 0.5) has both
\* of its outcomes on these two.
ExtremeDraws == {0, 99}
DrawsForAll(k, n) == [1..k -> [1..n -> ExtremeDraws]]

\* ----------------------------------------------------------------- engine
\* The state of the variables of ChromSpec while the engine runs.
ChromIdle ==
  /\ chrom = None
  /\ mate = None
  /\ result = [call |-> "none"]
  /\ history = <<>>

\* work_pool.map is called: one task per individual, no result yet.
Submitted(pop) == {[i |-> i, bit_string |-> pop[i].bit_string] : i \in 1..Len(pop)}
NoResults(pop) == [i \in 1..Len(pop) |-> None]

\* GeneticAlgorithm.__init__ up to the call of work_pool.map in its
\* updateAllFitness.
Init ==
  /\ population_size \in 1..MaxPop
  /\ bit_string_len \in 1..MaxBits
  /\ population_size * bit_string_len <= MaxGenes
  /\ fitness_fnc \in FitnessFunctions
  /\ hooks \in Hooks
  /\ population \in [1..population_size ->
        {randomise(Chromasome(bit_string_len), c) : c \in BitStrings(bit_string_len)}]
  /\ op = "__init__"
  /\ pc = "pool"
  /\ tasks = Submitted(population)
  /\ updated_fitness = NoResults(population)
  /\ n_pairs = 0
  /\ total_fitness = 0
  /\ parent_pairs = <<>>
  /\ raised = None
  /\ ChromIdle

\* A worker of the pool finishes one task, in any order.
WorkerDone ==
  /\ pc = "pool"
  /\ \E t \in tasks :
       /\ tasks' = tasks \ {t}
       /\ updated_fitness' =
            [updated_fitness EXCEPT ![ResultSlot(t.i, updated_fitness)] =
               Some(FitnessFnc(fitness_fnc, t.bit_string))]
  /\ UNCHANGED <<population_size, bit_string_len, fitness_fnc, hooks, population,
                 op, pc, n_pairs, total_fitness, parent_pairs, raised, chrom_vars>>

\* work_pool.map has returned: the for loop of updateAllFitness, and the
\* return to __init__, to nextGeneration or to the caller.
UpdateWriteBack ==
  /\ pc = "pool"
  /\ tasks = {}
  /\ population' = WriteBack(population, updated_fitness)
  /\ updated_fitness' = <<>>
  /\ pc' = IF op = "nextGeneration" THEN "selection" ELSE "idle"
  /\ UNCHANGED <<population_size, bit_string_len, fitness_fnc, hooks, op, tasks,
                 n_pairs, total_fitness, parent_pairs, raised, chrom_vars>>

\* A caller invokes nextGeneration: its first statement is updateAllFitness.
nextGeneration ==
  /\ pc = "idle"
  /\ op' = "nextGeneration"
  /\ pc' = "pool"
  /\ tasks' = Submitted(population)
  /\ updated_fitness' = NoResults(population)
  /\ raised' = None
  /\ UNCHANGED <<population_size, bit_string_len, fitness_fnc, hooks, population,
                 n_pairs, total_fitness, parent_pairs, chrom_vars>>

\* A caller invokes updateAllFitness itself.
updateAllFitness ==
  /\ pc = "idle"
  /\ op' = "updateAllFitness"
  /\ pc' = "pool"
  /\ tasks' = Submitted(population)
  /\ updated_fitness' = NoResults(population)
  /\ raised' = None
  /\ UNCHANGED <<population_size, bit_string_len, fitness_fnc, hooks, population,
                 n_pairs, total_fitness, parent_pairs, chrom_vars>>

\* A caller invokes mutateAll itself, with any rate.
CallMutateAll ==
  /\ pc = "idle"
  /\ \E rate \in Rates \cup BadRates :
     \E r \in {mutateAll(population, rate, draws) :
                 draws \in DrawsForAll(Len(population), bit_string_len)} :
       /\ population' = r.population
       /\ raised' = r.raised
  /\ op' = "mutateAll"
  /\ UNCHANGED <<population_size, bit_string_len, fitness_fnc, hooks, pc, tasks,
                 updated_fitness, n_pairs, total_fitness, parent_pairs, chrom_vars>>

\* The population after fitness() has been called on every individual, as
\* the list comprehensions and max(..., key=...) of the queries do.
Evaluated(pop, f) == [i \in 1..Len(pop) |-> fitness(pop[i], f).self]

\* max() or min() of an empty sequence.
EmptySequenceError(method) == [type |-> "ValueError", method |-> method]

\* What a query does to the engine; the value it returns is not kept. sum()
\* accepts an empty list, max() and min() do not.
Queried(method) ==
  /\ pc = "idle"
  /\ op' = method
  /\ population' = Evaluated(population, fitness_fnc)
  /\ raised' = IF population = <<>> /\ method # "avgFitness"
               THEN Some(EmptySequenceError(method))
               ELSE None
  /\ UNCHANGED <<population_size, bit_string_len, fitness_fnc, hooks, pc, tasks,
                 updated_fitness, n_pairs, total_fitness, parent_pairs, chrom_vars>>

\* A caller invokes one of the read-only queries.
avgFitness == Queried("avgFitness")
maxFitness == Queried("maxFitness")
minFitness == Queried("minFitness")
getBestIndividual == Queried("getBestIndividual")

\* selection() calls getRoulettePairs: the sort, the total and the empty list.
getRoulettePairs ==
  /\ pc = "selection"
  /\ n_pairs' = SelectionPairs(hooks, population, population_size)
  /\ population' = SortedDesc(population, fitness_fnc)
  /\ total_fitness' = TotalFitness(SortedDesc(population, fitness_fnc), fitness_fnc)
  /\ parent_pairs' = <<>>
  /\ pc' = "roulette"
  /\ UNCHANGED <<population_size, bit_string_len, fitness_fnc, hooks, op, tasks,
                 updated_fitness, raised, chrom_vars>>

\* One iteration of the while loop of getRoulettePairs: two draws, two walks,
\* and the pair is appended or not.
RouletteDraw ==
  /\ pc = "roulette"
  /\ KeepsDrawing(parent_pairs, n_pairs)
  /\ \E left_parent, right_parent \in
          {Walk(population, fitness_fnc, r) : r \in UniformDraws(total_fitness)} :
       parent_pairs' =
             IF AcceptsPair(left_parent, right_parent, parent_pairs)
             THEN Append(parent_pairs, <<left_parent, right_parent>>)
             ELSE parent_pairs
  /\ UNCHANGED <<population_size, bit_string_len, fitness_fnc, hooks, population, op, pc,
                 tasks, updated_fitness, n_pairs, total_fitness, raised, chrom_vars>>

\* What "self.population = self.crossover(parent_pairs)" does with the outcome
\* r of the crossover method: the assignment, or the exception that ends
\* nextGeneration.
Recombined(r) ==
  /\ IF r.raised = None
     THEN population' = Val(r.ret) /\ pc' = "mutate"
     ELSE population' = population /\ pc' = "idle"
  /\ raised' = r.raised
  /\ parent_pairs' = <<>>
  /\ n_pairs' = 0
  /\ total_fitness' = 0
  /\ UNCHANGED <<population_size, bit_string_len, fitness_fnc, hooks, op, tasks,
                 updated_fitness, chrom_vars>>

\* getRoulettePairs returns and crossover() calls uniformCrossover.
UniformCrossoverStep ==
  /\ pc = "roulette"
  /\ ~KeepsDrawing(parent_pairs, n_pairs)
  /\ hooks.crossover = "uniformCrossover"
  /\ \E r \in {uniformCrossover(parent_pairs, population, population_size, draws) :
                 draws \in DrawsForAll(Len(parent_pairs), bit_string_len)} :
       Recombined(r)

\* getRoulettePairs returns and crossover() calls singlePointCrossover
\* without a pivot.
SinglePointCrossoverStep ==
  /\ pc = "roulette"
  /\ ~KeepsDrawing(parent_pairs, n_pairs)
  /\ hooks.crossover = "singlePointCrossover"
  /\ Recombined(singlePointCrossover(parent_pairs, population, population_size,
                                     bit_string_len, None))

\* mutate() of the subclass: mutateAll(0.01), the last statement of
\* nextGeneration.
MutateStep ==
  /\ pc = "mutate"
  /\ \E r \in {mutateAll(population, HookRate, draws) :
                 draws \in DrawsForAll(Len(population), bit_string_len)} :
       /\ population' = r.population
       /\ raised' = r.raised
  /\ pc' = "idle"
  /\ UNCHANGED <<population_size, bit_string_len, fitness_fnc, hooks, op, tasks,
                 updated_fitness, n_pairs, total_fitness, parent_pairs, chrom_vars>>

Next ==
  \/ WorkerDone
  \/ UpdateWriteBack
  \/ nextGeneration
  \/ updateAllFitness
  \/ CallMutateAll
  \/ avgFitness
  \/ maxFitness
  \/ minFitness
  \/ getBestIndividual
  \/ getRoulettePairs
  \/ RouletteDraw
  \/ UniformCrossoverStep
  \/ SinglePointCrossoverStep
  \/ MutateStep

Spec == Init /\ [][Next]_vars

\* ------------------------------------------------ ChromSpec: one Chromasome
\* The state of the engine's variables while a Chromasome is used directly.
EngineIdle ==
  /\ population_size = 0
  /\ hooks = Testega
  /\ population = <<>>
  /\ op = "Chromasome"
  /\ pc = "none"
  /\ tasks = {}
  /\ updated_fitness = <<>>
  /\ n_pairs = 0
  /\ total_fitness = 0
  /\ parent_pairs = <<>>
  /\ raised = None

\* Two Chromasome objects as the tests build them: constructed, randomised or
\* not, nothing cached.
ChromInit ==
  /\ EngineIdle
  /\ bit_string_len \in 1..MaxBits
  /\ fitness_fnc \in FitnessFunctions
  /\ chrom \in {randomise(Chromasome(bit_string_len), c) : c \in BitStrings(bit_string_len)}
  /\ mate \in {randomise(Chromasome(bit_string_len), c) : c \in BitStrings(bit_string_len)}
  /\ result = [call |-> "none"]
  /\ history = <<>>

ChromUnchanged ==
  UNCHANGED <<population_size, bit_string_len, fitness_fnc, hooks, population, op, pc,
              tasks, updated_fitness, n_pairs, total_fitness, parent_pairs, raised>>

\* chrom.randomise()
ChromRandomise ==
  /\ \E choices \in BitStrings(bit_string_len) :
       /\ chrom' = randomise(chrom, choices)
       /\ result' = [call |-> "randomise"]
  /\ history' = <<>>
  /\ UNCHANGED mate
  /\ ChromUnchanged

\* chrom.mutate(rate)
ChromMutate ==
  /\ \E rate \in Rates :
     \E after \in {mutate(chrom, rate, draws) : draws \in DrawsFor(bit_string_len)} :
       /\ chrom' = after
       /\ result' = [call |-> "mutate", rate |-> rate, before |-> chrom.bit_string]
  /\ history' = <<>>
  /\ UNCHANGED mate
  /\ ChromUnchanged

\* chrom.fitness(); history records every call since the genome last changed.
ChromFitness ==
  /\ Len(history) < MaxFitnessCalls
  /\ LET r == fitness(chrom, fitness_fnc)
     IN  /\ chrom' = r.self
         /\ result' = [call |-> "fitness", ret |-> r.ret]
         /\ history' = Append(history,
              [ret |-> r.ret, invoked |-> r.invoked,
               cache_before |-> chrom.fitness_val, genome_before |-> chrom.bit_string])
  /\ UNCHANGED mate
  /\ ChromUnchanged

\* The pivots a caller passes: inside [0, n_bits] and up to PivotSlack outside,
\* on each side.
Pivots(n) == (0 - n - PivotSlack)..(n + PivotSlack)

\* chrom.crossoverSinglePoint(mate, pivot)
ChromCrossoverSinglePoint ==
  /\ \E pivot \in Pivots(bit_string_len) :
       LET r == crossoverSinglePoint(chrom, mate, pivot)
       IN  /\ chrom' = r.self
           /\ mate' = r.mate
           /\ result' = [call |-> "crossoverSinglePoint", pivot |-> pivot,
                         ret |-> r.ret, raised |-> r.raised,
                         self_before |-> chrom, mate_before |-> mate]
  /\ UNCHANGED history
  /\ ChromUnchanged

\* chrom.crossoverUniform(mate)
ChromCrossoverUniform ==
  /\ \E child \in {crossoverUniform(chrom, mate, draws) : draws \in DrawsFor(bit_string_len)} :
       result' = [call |-> "crossoverUniform", ret |-> Some(child)]
  /\ UNCHANGED <<chrom, mate, history>>
  /\ ChromUnchanged

ChromNext ==
  \/ ChromRandomise
  \/ ChromMutate
  \/ ChromFitness
  \/ ChromCrossoverSinglePoint
  \/ ChromCrossoverUniform

ChromSpec == ChromInit /\ [][ChromNext]_vars

\* ------------------------------------------------- EliteSpec: getBestPairs
\* elites = self.population[:n_pairs], as the positions of the sorted
\* population the slice holds. The argument n_elites is never read.
Elites(pop, n) == 1..Len(SliceTo(pop, n))

\* random.choice of an empty sequence.
IndexError == [type |-> "IndexError", method |-> "random.choice"]

\* The values of n_pairs a caller passes.
PairArguments == 0..MaxPop

\* An engine under construction whose getBestPairs the caller will invoke
\* itself: the method reads no hook.
EliteInit == Init /\ hooks = Testega

\* A caller invokes getBestPairs(n_pairs, n_elites): the sort, the slice and
\* the empty list.
getBestPairs ==
  /\ pc = "idle"
  /\ \E pairs_wanted \in PairArguments : n_pairs' = pairs_wanted
  /\ population' = SortedDesc(population, fitness_fnc)
  /\ parent_pairs' = <<>>
  /\ op' = "getBestPairs"
  /\ pc' = "elites"
  /\ raised' = None
  /\ UNCHANGED <<population_size, bit_string_len, fitness_fnc, hooks, tasks,
                 updated_fitness, total_fitness, chrom_vars>>

\* One iteration of the while loop of getBestPairs: two choices among the
\* elites, and the pair is appended or not; with no elite the first choice
\* raises IndexError.
EliteDraw ==
  /\ pc = "elites"
  /\ KeepsDrawing(parent_pairs, population_size)
  /\ IF Elites(population, n_pairs) = {}
     THEN /\ raised' = Some(IndexError)
          /\ pc' = "idle"
          /\ UNCHANGED parent_pairs
     ELSE /\ \E p1, p2 \in Elites(population, n_pairs) :
               parent_pairs' =
                 IF AcceptsPair(p1, p2, parent_pairs)
                 THEN Append(parent_pairs, <<p1, p2>>)
                 ELSE parent_pairs
          /\ UNCHANGED <<pc, raised>>
  /\ UNCHANGED <<population_size, bit_string_len, fitness_fnc, hooks, population, op,
                 tasks, updated_fitness, n_pairs, total_fitness, chrom_vars>>

\* The while loop has ended: getBestPairs returns parent_pairs to the caller.
EliteReturn ==
  /\ pc = "elites"
  /\ ~KeepsDrawing(parent_pairs, population_size)
  /\ pc' = "idle"
  /\ parent_pairs' = <<>>
  /\ n_pairs' = 0
  /\ UNCHANGED <<population_size, bit_string_len, fitness_fnc, hooks, population, op,
                 tasks, updated_fitness, total_fitness, raised, chrom_vars>>

EliteNext ==
  \/ WorkerDone
  \/ UpdateWriteBack
  \/ getBestPairs
  \/ EliteDraw
  \/ EliteReturn

\* An iteration of the loop whose pair passes the test of line 255.
EliteAccept == EliteDraw /\ parent_pairs' # parent_pairs

\* random.choice draws uniformly and independently at every iteration, so a
\* pair that would be accepted at every iteration from some point on is drawn
\* eventually (with probability 1): weak fairness of the accepting iteration.
EliteSpec == EliteInit /\ [][EliteNext]_vars /\ WF_vars(EliteAccept)

\* ------------------------------------------------------------- properties
BitStringsOf(pop) == [i \in 1..Len(pop) |-> pop[i].bit_string]

\* C1: an engine with Testega's hooks holds, after construction and after
\* every call that has ended, exactly population_size individuals, each with
\* a genome of exactly bit_string_len bits that are 0 or 1.
C1_PopulationShape ==
  (hooks = Testega /\ pc = "idle") =>
    /\ Len(population) = population_size
    /\ \A i \in 1..Len(population) :
         /\ Len(population[i].bit_string) = bit_string_len
         /\ \A j \in 1..Len(population[i].bit_string) : population[i].bit_string[j] \in Bits

\* A Testega engine whose nextGeneration has returned.
C1_Witness ==
  /\ hooks = Testega
  /\ pc = "idle"
  /\ op = "nextGeneration"
  /\ raised = None
  /\ population_size > 1

\* C2: when getRoulettePairs returns, no pair holds the same individual twice
\* and no unordered pair {a, b} occurs twice in the list, neither as (a, b)
\* twice nor as (a, b) and (b, a).
C2_RoulettePairsUnordered ==
  (pc = "roulette" /\ ~KeepsDrawing(parent_pairs, n_pairs)) =>
    /\ \A i \in 1..Len(parent_pairs) : parent_pairs[i][1] # parent_pairs[i][2]
    /\ \A i, j \in 1..Len(parent_pairs) :
         i # j => {parent_pairs[i][1], parent_pairs[i][2]}
                    # {parent_pairs[j][1], parent_pairs[j][2]}

\* C3: singlePointCrossover given the population_size/2 pairs the program
\* computes returns exactly population_size offspring, for every
\* population_size, even or odd.
C3_SinglePointKeepsSize ==
  (hooks = ToySolver /\ pc = "mutate") => Len(population) = population_size

\* C4: uniformCrossover given exactly population_size pairs returns
\* population_size offspring, the i-th taking every bit from one of the two
\* parents of the i-th pair; given any other number of pairs it raises a
\* ValueError carrying the expected and the actual count, and the population is
\* left as it was.
C4_UniformCrossoverStep ==
  UniformCrossoverStep =>
    IF Len(parent_pairs) = population_size
    THEN /\ raised' = None
         /\ pc' = "mutate"
         /\ Len(population') = population_size
         /\ \A i \in 1..Len(parent_pairs) : \A b \in 1..bit_string_len :
              population'[i].bit_string[b] \in
                {population[parent_pairs[i][1]].bit_string[b],
                 population[parent_pairs[i][2]].bit_string[b]}
    ELSE /\ raised' = Some([type |-> "ValueError", method |-> "uniformCrossover",
                            expects |-> population_size, given |-> Len(parent_pairs)])
         /\ pc' = "idle"
         /\ population' = population
C4_UniformCrossover == [][C4_UniformCrossoverStep]_vars

\* uniformCrossover has raised its ValueError.
C4_Witness ==
  /\ pc = "idle"
  /\ raised # None
  /\ Val(raised).method = "uniformCrossover"
  /\ Val(raised).given # population_size

\* C6: every step of updateAllFitness leaves the genomes and their order as
\* they are, and when it returns the cached fitness of every population[i] is
\* the fitness function applied to population[i]'s genome, whatever the order
\* the workers finished in and whatever was cached before.
C6_UpdateAllFitnessStep ==
  (pc = "pool") =>
    /\ BitStringsOf(population') = BitStringsOf(population)
    /\ (pc' # "pool") =>
         \A i \in 1..Len(population') :
           population'[i].fitness_val =
             Some(FitnessFnc(fitness_fnc, population'[i].bit_string))
C6_UpdateAllFitness == [][C6_UpdateAllFitnessStep]_vars

\* updateAllFitness on a population that holds a stale cached fitness and
\* whose genomes score differently: every worker has finished and the
\* write-back is next.
C6_Witness ==
  /\ pc = "pool"
  /\ op = "updateAllFitness"
  /\ tasks = {}
  /\ \E i \in 1..Len(population) :
       /\ population[i].fitness_val # None
       /\ population[i].fitness_val # Some(FitnessFnc(fitness_fnc, population[i].bit_string))
  /\ \E i, j \in 1..Len(population) : updated_fitness[i] # updated_fitness[j]

\* C9: getRoulettePairs invoked on a population whose total fitness is not
\* positive ends in an error: it never gets to its drawing loop.
C9_NonPositiveTotalIsFatal ==
  (pc = "roulette") => total_fitness > 0

\* C5: for an individual with nothing cached, the first fitness() returns the
\* fitness function applied to the genome and leaves the genome as it was, the
\* later calls before any change of the genome return the same value, and the
\* fitness function is invoked at most once over all of them.
C5_FitnessMemoised ==
  (history # <<>> /\ history[1].cache_before = None) =>
    /\ history[1].ret = FitnessFnc(fitness_fnc, history[1].genome_before)
    /\ chrom.bit_string = history[1].genome_before
    /\ \A k \in 2..Len(history) : history[k].ret = history[1].ret
    /\ Sum([k \in 1..Len(history) |-> history[k].invoked]) <= 1

\* Two calls of fitness() on an individual that had nothing cached.
C5_Witness ==
  /\ Len(history) >= 2
  /\ history[1].cache_before = None

\* C7: for a pivot k in [0, n_bits], crossoverSinglePoint returns a new
\* individual whose genome is self's first k bits followed by mate's bits from
\* position k on, of length n_bits and with nothing cached, and both parents
\* are as they were.
C7_SinglePointChild ==
  (result.call = "crossoverSinglePoint" /\ result.pivot \in 0..bit_string_len) =>
    /\ result.raised = None
    /\ result.ret # None
    /\ Val(result.ret).bit_string =
         SubSeq(result.self_before.bit_string, 1, result.pivot)
           \o SubSeq(result.mate_before.bit_string, result.pivot + 1, bit_string_len)
    /\ Len(Val(result.ret).bit_string) = bit_string_len
    /\ Val(result.ret).fitness_val = None
    /\ chrom = result.self_before
    /\ mate = result.mate_before

\* A crossover strictly inside the genome of a parent with a cached fitness.
C7_Witness ==
  /\ result.call = "crossoverSinglePoint"
  /\ result.pivot > 0
  /\ result.pivot < bit_string_len
  /\ chrom.fitness_val # None
  /\ chrom.bit_string # mate.bit_string

\* C8: whatever the random draws, mutate with rate 0 leaves the genome as it
\* was and mutate with rate 1 flips every bit.
C8_MutateRateZeroAndOne ==
  (result.call = "mutate") =>
    /\ (result.rate = 0) => chrom.bit_string = result.before
    /\ (result.rate = 100) =>
         \A i \in 1..Len(result.before) : chrom.bit_string[i] = 1 - result.before[i]

\* C10: crossoverSinglePoint called with a pivot outside [0, n_bits] raises
\* an error and returns no offspring.
C10_PivotOutOfRangeRejected ==
  (result.call = "crossoverSinglePoint" /\ result.pivot \notin 0..bit_string_len) =>
    /\ result.raised # None
    /\ result.ret = None

\* The pool the claim describes: the min(n_pairs, population_size) first
\* positions of the population sorted by descending fitness.
C11_Pool ==
  1..(IF n_pairs < population_size THEN n_pairs ELSE population_size)

\* The number of ordered pairs of two different members of that pool.
C11_PairsAdmitted == Cardinality(C11_Pool) * (Cardinality(C11_Pool) - 1)

\* getBestPairs is in its loop / has left its loop and returns parent_pairs.
C11_Drawing == pc = "elites"
C11_Returns == pc = "elites" /\ ~KeepsDrawing(parent_pairs, population_size)

\* No individual outside the pool is fitter than one inside, and every pair
\* drawn so far is made of members of the pool.
C11_DrawsFromPool ==
  C11_Drawing =>
    /\ \A i \in C11_Pool : \A j \in (1..Len(population)) \ C11_Pool :
         FitnessFnc(fitness_fnc, population[i].bit_string)
           >= FitnessFnc(fitness_fnc, population[j].bit_string)
    /\ \A i \in 1..Len(parent_pairs) :
         parent_pairs[i][1] \in C11_Pool /\ parent_pairs[i][2] \in C11_Pool

\* The list returned: population_size pairs of two different members, no
\* ordered pair twice; and a return happens only when the pool admits
\* population_size pairs.
C11_ReturnedPairs ==
  C11_Returns =>
    /\ Len(parent_pairs) = population_size
    /\ \A i \in 1..Len(parent_pairs) : parent_pairs[i][1] # parent_pairs[i][2]
    /\ \A i, j \in 1..Len(parent_pairs) : i # j => parent_pairs[i] # parent_pairs[j]
    /\ C11_PairsAdmitted >= population_size

C12_Stale(pop, i) ==
  /\ pop[i].fitness_val # None
  /\ Val(pop[i].fitness_val) # FitnessFnc(fitness_fnc, pop[i].bit_string)

\* Every cached fitness of the current population is the fitness of the
\* genome it is cached on.
C12_CacheFresh == \A i \in 1..Len(population) : ~C12_Stale(population, i)

\* The step is a mutateAll the caller invoked itself, and it raised nothing.
C12_MutateAllCalled ==
  pc = "idle" /\ pc' = "idle" /\ op' = "mutateAll" /\ raised' = None

\* Construction, nextGeneration and the queries (every step that is not such
\* a mutateAll) keep the caches fresh.
C12_KeptFresh ==
  (C12_CacheFresh /\ ~C12_MutateAllCalled) => C12_CacheFresh'

\* A mutateAll on a scored individual leaves its cache stale as soon as it
\* changes the genome.
C12_BreaksOnChange ==
  C12_MutateAllCalled =>
    \A i \in 1..Len(population) :
      (/\ population[i].fitness_val # None
       /\ ~C12_Stale(population, i)
       /\ population'[i].bit_string # population[i].bit_string)
      => C12_Stale(population', i)

\* A mutateAll keeps every cache as it is, so the cache of a scored
\* individual is stale afterwards exactly when the fitness of its genome has
\* changed.
C12_BreaksOnFitnessChange ==
  C12_MutateAllCalled =>
    \A i \in 1..Len(population) :
      /\ population'[i].fitness_val = population[i].fitness_val
      /\ (population[i].fitness_val # None /\ ~C12_Stale(population, i)) =>
           (C12_Stale(population', i) <=>
              FitnessFnc(fitness_fnc, population'[i].bit_string)
                # FitnessFnc(fitness_fnc, population[i].bit_string))

\* C12 as stated: in runs of construction, nextGeneration and queries every
\* cached fitness is the fitness of the current genome, and the invariant
\* breaks as soon as mutateAll is applied to (changes the genome of) an
\* individual that is already scored.
C12_CacheFreshOrBroken ==
  C12_CacheFresh /\ [][C12_KeptFresh /\ C12_BreaksOnChange]_vars

\* C12 amended: in runs of construction, nextGeneration and queries every
\* cached fitness is the fitness of the current genome; mutateAll never
\* touches a cache, so the invariant breaks exactly when mutateAll changes
\* the fitness of the genome of an individual that is already scored.
C12_CacheFreshUntilFitnessMutated ==
  C12_CacheFresh /\ [][C12_KeptFresh /\ C12_BreaksOnFitnessChange]_vars

\* A caller's mutateAll has left a scored individual with a stale cache.
C12_Witness ==
  /\ pc = "idle"
  /\ op = "mutateAll"
  /\ raised = None
  /\ ~C12_CacheFresh
====
